---- MODULE Spec2Model ----
(***************************************************************************)
(* A model of the market-data gateway of the Muffin backend:               *)
(*   services/market_data.py  fetch_candles, _fetch_candles_polygon,       *)
(*                            _fetch_candles_yahoo, search_symbols,        *)
(*                            compute_change_percent, _parse_window        *)
(*   main.py                  api_big_movers, api_candles, health          *)
(*   services/github_reader.py read_github_file and what it calls          *)
(* Strings that the code inspects character by character (the window) are  *)
(* sequences of one-character strings.  Python's None is the string        *)
(* "None" where the value is otherwise a string, and the empty option <<>> *)
(* where it is otherwise a number (<<x>> is the number x).                 *)
(***************************************************************************)
EXTENDS Integers, Sequences, FiniteSets, TLC

VARIABLES
    \* ---- one call of fetch_candles(symbol, timespan, window, polygon_key)
    polygon_key,         \* the explicit credential argument
    env_key,             \* os.environ.get("POLYGON_API_KEY")
    timespan,            \* the timespan argument
    window,              \* the window argument, a sequence of characters
    pc,                  \* where the call is
    key,                 \* the resolved credential
    attempts_remaining,  \* market_data.py:141
    current_delta,       \* market_data.py:142, in days
    candles,             \* market_data.py:147, the list being accumulated
    next_url,            \* market_data.py:171, the continuation cursor
    outcome,             \* how the call ended ("running" until it does)
    result,              \* the returned list (<<>> unless outcome = "returned")
    polygon_requests,    \* requests sent to the primary provider so far
    yahoo_requests,      \* requests sent to the free provider so far
    rate_limits,         \* 429 responses handled so far
    attempt_pages,       \* the pages the provider served in the current attempt
    last_status,         \* the status of the latest response (0: no response)
    discarded,           \* TRUE once an attempt holding candles was abandoned
    last_request,        \* the latest request sent to a provider
    pending_wait,        \* time.sleep since the latest response, in tenths of a second
    cursor_fresh,        \* TRUE when next_url was set by the attempt in progress
    chart,               \* chart.result of the free provider's response
    \* ---- one request to POST /api/bigmovers
    symbols,             \* payload.symbols
    threshold,           \* payload.threshold
    scan_pc,             \* where the handler is
    scan_index,          \* the position of the loop in symbols (1-based)
    movers,              \* main.py:95, the list being built, then the response
    fetched,             \* what fetch_candles did for each symbol visited so far
    \* ---- one call of compute_change_percent(candles, window)
    change_candles,      \* the candles argument
    change_window,       \* the window argument
    change_pc,
    change_result,
    \* ---- one call of _parse_window(window)
    parse_window,        \* the window argument
    parse_pc,
    parse_result,
    \* ---- one call of search_symbols(query, polygon_key, limit)
    search_key,          \* the explicit credential argument
    search_env,          \* os.environ.get("POLYGON_API_KEY")
    search_limit,        \* the limit argument
    search_pc,           \* where the call is
    search_outcome,      \* how the call ended ("running" until it does)
    search_result,       \* the returned list
    primary_searches,    \* requests sent to the primary provider's ticker search
    suggest_searches,    \* requests sent to the free provider's suggest endpoint
    primary_response,    \* the primary provider's response, once there is one
    suggest_response,    \* the free provider's response, once there is one
    \* ---- one call of read_github_file(url, token)
    gh_url,              \* the url argument
    gh_token,            \* the token argument
    gh_pc,               \* where the call is
    gh_branch,           \* github_reader.py:170, the position of the loop (1-based)
    gh_target,           \* the URL of the request to come
    gh_name,             \* github_reader.py:108, data.get("name") of the API's answer
    gh_outcome,          \* how the call ended ("running" until it does)
    gh_result,           \* the returned GithubFileResult
    gh_requests,         \* the requests sent so far, each with how it was answered
    \* ---- the requests in flight on the server's event loop
    req_kind,            \* the endpoint of each request
    req_pc,              \* where the handler of each request is
    req_attempts,        \* attempts_remaining of each candle fetch
    req_pages,           \* pages fetched by the attempt in progress
    loop_owner           \* the request whose handler runs on the loop, 0 if none

fetchVars == <<polygon_key, env_key, timespan, window, pc, key, attempts_remaining,
               current_delta, candles, next_url, outcome, result, polygon_requests,
               yahoo_requests, rate_limits, attempt_pages, last_status, discarded,
               last_request, pending_wait, cursor_fresh, chart>>

scanVars == <<symbols, threshold, scan_pc, scan_index, movers, fetched>>

changeVars == <<change_candles, change_window, change_pc, change_result>>

parseVars == <<parse_window, parse_pc, parse_result>>

searchVars == <<search_key, search_env, search_limit, search_pc, search_outcome,
                search_result, primary_searches, suggest_searches,
                primary_response, suggest_response>>

githubVars == <<gh_url, gh_token, gh_pc, gh_branch, gh_target, gh_name, gh_outcome,
                gh_result,
                gh_requests>>

serverVars == <<req_kind, req_pc, req_attempts, req_pages, loop_owner>>

vars == <<fetchVars, scanVars, changeVars, parseVars, searchVars, githubVars,
          serverVars>>

None == "None"

\* Python truthiness of an Optional[str]
Truthy(s) == s # None /\ s # ""

----------------------------------------------------------------------------
\* Bounds of the model

\* continuation pages the provider serves at most in one attempt
MaxPages == 2

----------------------------------------------------------------------------
\* market_data.py:12
Timespans == {"1m", "5m", "15m", "1h", "day", "month"}

\* the credential resolver without its environment default
ExplicitKeyOnly(explicit_key, environ) == explicit_key

\* market_data.py:29-32
_get_polygon_key(explicit_key, environ) ==
    IF Truthy(explicit_key) THEN explicit_key ELSE environ

----------------------------------------------------------------------------
\* The window parser

Digits == <<"0", "1", "2", "3", "4", "5", "6", "7", "8", "9">>

IsDigit(ch) == \E i \in 1..Len(Digits) : Digits[i] = ch

DigitValue(ch) == (CHOOSE i \in 1..Len(Digits) : Digits[i] = ch) - 1

RECURSIVE DigitsValue(_)
\* the value of a non-empty sequence of decimal digits
DigitsValue(s) ==
    IF Len(s) = 0 THEN 0
    ELSE 10 * DigitsValue(SubSeq(s, 1, Len(s) - 1)) + DigitValue(s[Len(s)])

\* Python's int(str) on the characters the model draws from: an optional sign and
\* at least one decimal digit; anything else raises ValueError (ok = FALSE)
PyInt(s) ==
    LET signed == Len(s) > 0 /\ s[1] \in {"+", "-"}
        body   == IF signed THEN Tail(s) ELSE s
    IN  IF Len(body) > 0 /\ \A i \in 1..Len(body) : IsDigit(body[i])
        THEN [ok |-> TRUE,
              value |-> IF signed /\ s[1] = "-" THEN 0 - DigitsValue(body)
                        ELSE DigitsValue(body)]
        ELSE [ok |-> FALSE, value |-> 0]

MaxWindow == <<"m", "a", "x">>

Timedelta(d) == [kind |-> "timedelta", days |-> d]
Raise(exc) == [kind |-> exc, days |-> 0]

\* a parser that takes a week for a day
ParseWindowWeekAsDay(w) ==
    IF w = MaxWindow THEN Raise("ValueError")
    ELSE IF Len(w) = 0 THEN Raise("IndexError")
    ELSE LET unit  == w[Len(w)]
             value == PyInt(SubSeq(w, 1, Len(w) - 1))
         IN  IF ~value.ok THEN Raise("ValueError")
             ELSE IF unit = "d" THEN Timedelta(value.value)
             ELSE IF unit = "w" THEN Timedelta(value.value)
             ELSE IF unit = "m" THEN Timedelta(30 * value.value)
             ELSE IF unit = "y" THEN Timedelta(365 * value.value)
             ELSE Raise("ValueError")

\* market_data.py:39-55
_parse_window(w) ==
    IF w = MaxWindow THEN Raise("ValueError")
    ELSE IF Len(w) = 0 THEN Raise("IndexError")
    ELSE LET unit  == w[Len(w)]
             value == PyInt(SubSeq(w, 1, Len(w) - 1))
         IN  IF ~value.ok THEN Raise("ValueError")
             ELSE IF unit = "d" THEN Timedelta(value.value)
             ELSE IF unit = "w" THEN Timedelta(7 * value.value)
             ELSE IF unit = "m" THEN Timedelta(30 * value.value)
             ELSE IF unit = "y" THEN Timedelta(365 * value.value)
             ELSE Raise("ValueError")

\* market_data.py:109-121, the ceiling of the window 'max' on the primary path
MaxWindowDelta(ts) ==
    IF ts = "1m" THEN 7
    ELSE IF ts = "5m" THEN 30
    ELSE IF ts = "15m" THEN 60
    ELSE IF ts = "1h" THEN 365
    ELSE IF ts = "day" THEN 365 * 20
    ELSE 365 * 30

\* every window goes through the generic parser
ParseEveryWindow(ts, w) == _parse_window(w)

\* market_data.py:109-123
ResolveDelta(ts, w) ==
    IF w = MaxWindow THEN Timedelta(MaxWindowDelta(ts)) ELSE _parse_window(w)

\* market_data.py:58-71
_polygon_timespan(ts) ==
    IF ts = "1m" THEN [multiplier |-> 1, unit |-> "minute"]
    ELSE IF ts = "5m" THEN [multiplier |-> 5, unit |-> "minute"]
    ELSE IF ts = "15m" THEN [multiplier |-> 15, unit |-> "minute"]
    ELSE IF ts = "1h" THEN [multiplier |-> 1, unit |-> "hour"]
    ELSE IF ts = "day" THEN [multiplier |-> 1, unit |-> "day"]
    ELSE IF ts = "month" THEN [multiplier |-> 1, unit |-> "month"]
    ELSE [multiplier |-> 0, unit |-> "ValueError"]

\* market_data.py:74-89
_yahoo_interval_and_range(ts, w) ==
    LET interval == IF ts = "1m" THEN "1m"
                    ELSE IF ts = "5m" THEN "5m"
                    ELSE IF ts = "15m" THEN "15m"
                    ELSE IF ts = "1h" THEN "60m"
                    ELSE IF ts = "day" THEN "1d"
                    ELSE "1mo"
    IN  <<interval, w>>

----------------------------------------------------------------------------
\* The providers' answers

\* A response of the primary provider's aggregates endpoint. status_code 0 stands
\* for a request that raised before any response (connection error, timeout).
\* results is what `data.get("results") or []` yields: an absent, null or empty
\* "results" is the empty sequence.
Response(status, results, nu, nU) ==
    [status_code |-> status, results |-> results, next_url |-> nu, nextUrl |-> nU]

RowA == [t |-> 1000, o |-> 100, h |-> 160, l |-> 90, c |-> 150, v |-> 10]
\* a row without "v"
RowB == [t |-> 2000, o |-> 150, h |-> 155, l |-> 110, c |-> 120]
\* a row without "c": Candle(...) raises KeyError
RowBad == [t |-> 3000, o |-> 120, h |-> 125, l |-> 115]

PageChoices == {<<>>, <<RowA>>, <<RowA, RowB>>, <<RowBad>>}

ErrorStatuses == {404, 500}

\* the responses the primary provider can give; with more = FALSE its chain of
\* continuation cursors ends here
PolygonResponses(more) ==
    {Response(s, <<>>, None, None) : s \in {0, 429} \cup ErrorStatuses}
    \cup {Response(200, p, nu, nU) :
            p \in PageChoices,
            nu \in IF more THEN {None, "", "cursor_a"} ELSE {None, ""},
            nU \in IF more THEN {None, "cursor_b"} ELSE {None}}

\* requests' Response.raise_for_status raises for 4xx and 5xx
RaisesForStatus(status) == status >= 400 /\ status < 600

\* a rate-limit test that also takes server errors for rate-limiting
IsRateLimitedOrServerError(status) == status = 429 \/ status >= 500

\* market_data.py:150 and 178
IsRateLimited(status) == status = 429

\* a budget of one attempt less
AttemptBudgetShort == 5 - 1

\* market_data.py:141
AttemptBudget == 5

\* an accumulator that survives into the next attempt
KeepCandles(previous) == previous

\* market_data.py:147: every attempt starts from an empty list
NewAttemptCandles(previous) == <<>>

\* half the days, without the floor of one day
HalveOnly(days) == days \div 2

\* one day more instead of half the days
Lengthen(days) == days + 1

\* market_data.py:153 and 181: max(1, int(current_delta.days * 0.5))
Shrink(days) ==
    LET half == IF days >= 0 THEN days \div 2 ELSE 0 - ((0 - days) \div 2)
    IN  IF half > 1 THEN half ELSE 1

\* market_data.py:162-169 and 190-197
ToCandle(r) ==
    [t |-> r.t, o |-> r.o, h |-> r.h, l |-> r.l, c |-> r.c,
     v |-> IF "v" \in DOMAIN r THEN r.v ELSE 0]

RowComplete(r) == {"t", "o", "h", "l", "c"} \subseteq DOMAIN r

\* the rows of a page put in front of the list instead of behind it
PrependCandles(acc, results) ==
    [i \in 1..Len(results) |-> ToCandle(results[i])] \o acc

\* market_data.py:160-170 and 188-198: the rows of one page appended in order
ExtendCandles(acc, results) ==
    acc \o [i \in 1..Len(results) |-> ToCandle(results[i])]

\* market_data.py:171 and 199: data.get("next_url") or data.get("nextUrl")
NextUrl(resp) == IF Truthy(resp.next_url) THEN resp.next_url ELSE resp.nextUrl

----------------------------------------------------------------------------
\* The free provider's chart payload

Min(a, b) == IF a < b THEN a ELSE b

\* one chart result: chart.result[0].timestamp and indicators.quote[0].*; every
\* array is what `... or []` yields, its entries are <<x>> or <<>> for null
ChartResult(ts, o, h, l, c, v) ==
    [timestamp |-> ts, open |-> o, high |-> h, low |-> l, close |-> c, volume |-> v]

RECURSIVE YahooRowsUntilNull(_, _, _)
\* the loop stopping at the first index with a missing price instead of skipping it
YahooRowsUntilNull(res0, i, n) ==
    IF i > n THEN <<>>
    ELSE LET o == res0.open[i]
             h == res0.high[i]
             l == res0.low[i]
             c == res0.close[i]
             v == IF i <= Len(res0.volume) THEN res0.volume[i] ELSE <<0>>
         IN  IF o = <<>> \/ h = <<>> \/ l = <<>> \/ c = <<>> THEN <<>>
             ELSE <<[t |-> res0.timestamp[i][1] * 1000, o |-> o[1], h |-> h[1],
                     l |-> l[1], c |-> c[1],
                     v |-> IF v = <<>> THEN 0 ELSE v[1]]>>
                  \o YahooRowsUntilNull(res0, i + 1, n)

RECURSIVE YahooRows(_, _, _)
\* market_data.py:229-247, the loop from index i (1-based) below n
YahooRows(res0, i, n) ==
    IF i > n THEN <<>>
    ELSE LET o == res0.open[i]
             h == res0.high[i]
             l == res0.low[i]
             c == res0.close[i]
             v == IF i <= Len(res0.volume) THEN res0.volume[i] ELSE <<0>>
             rest == YahooRows(res0, i + 1, n)
         IN  IF o = <<>> \/ h = <<>> \/ l = <<>> \/ c = <<>> THEN rest
             ELSE <<[t |-> res0.timestamp[i][1] * 1000, o |-> o[1], h |-> h[1],
                     l |-> l[1], c |-> c[1],
                     v |-> IF v = <<>> THEN 0 ELSE v[1]]>> \o rest

\* market_data.py:219-248
YahooCandles(res0) ==
    YahooRows(res0, 1,
              Min(Len(res0.timestamp),
                  Min(Len(res0.open),
                      Min(Len(res0.high), Min(Len(res0.low), Len(res0.close))))))

\* the chart results the model draws from
ChartResults ==
    { ChartResult(<<>>, <<>>, <<>>, <<>>, <<>>, <<>>),
      ChartResult(<<<<10>>, <<20>>, <<30>>>>, <<<<100>>, <<110>>, <<120>>>>,
                  <<<<105>>, <<115>>, <<125>>>>, <<<<95>>, <<105>>, <<115>>>>,
                  <<<<101>>, <<>>, <<150>>>>, <<<<7>>, <<8>>, <<9>>>>),
      ChartResult(<<<<10>>, <<20>>>>, <<<<0>>, <<110>>>>, <<<<105>>, <<115>>>>,
                  <<<<95>>, <<105>>>>, <<<<101>>, <<111>>>>, <<<<>>>>),
      ChartResult(<<<<20>>, <<10>>>>, <<<<100>>, <<>>>>, <<<<105>>>>,
                  <<<<95>>, <<105>>>>, <<<<50>>, <<111>>>>, <<>>),
      ChartResult(<<<<30>>, <<10>>>>, <<<<100>>, <<110>>>>, <<<<105>>, <<115>>>>,
                  <<<<95>>, <<105>>>>, <<<<101>>, <<111>>>>, <<<<7>>, <<8>>>>) }

\* the responses of the free provider's chart endpoint: result is chart.result,
\* <<>> when it is absent, null or empty
YahooResponses ==
    {[status_code |-> s, result |-> <<>>] : s \in {0, 200, 429} \cup ErrorStatuses}
    \cup {[status_code |-> 200, result |-> <<r>>] : r \in ChartResults}

----------------------------------------------------------------------------
\* One call of fetch_candles

\* no request has been sent yet
NoRequest ==
    [kind |-> "none", days |-> 0, url |-> None, separator |-> "", apiKey |-> None,
     waited |-> 0]

\* market_data.py:125-139: the initial ranged request; start is now - days, the
\* credential is the apiKey parameter of the query string
RangedRequest(days, k, waited) ==
    [kind |-> "initial", days |-> days, url |-> None, separator |-> "?",
     apiKey |-> k, waited |-> waited]

\* "?" in next_url: cursor_a stands for a provider URL that already has a query
\* string, cursor_b for one that has none
HasQuery(url) == url = "cursor_a"

\* the provider's URL requested as it came
BarePageUrl(url, k) == [url |-> url, separator |-> "", apiKey |-> None]

\* market_data.py:175-176: the credential is appended to the provider's URL
PageUrl(url, k) ==
    [url |-> url, separator |-> IF HasQuery(url) THEN "&" ELSE "?", apiKey |-> k]

\* market_data.py:174-177: a continuation request, part of the attempt for days
ContinuationRequest(days, page_url, waited) ==
    [kind |-> "page", days |-> days, url |-> page_url.url,
     separator |-> page_url.separator, apiKey |-> page_url.apiKey,
     waited |-> waited]

\* market_data.py:209-213: the free provider's chart request carries no credential
ChartRequest ==
    [kind |-> "chart", days |-> 0, url |-> None, separator |-> "?", apiKey |-> None,
     waited |-> 0]

\* market_data.py:155 and 183: time.sleep(1.0), in tenths of a second
CoolDown == 10

\* market_data.py:174: time.sleep(0.5), in tenths of a second
PageDelay == 5

FetchKeys == {None, "", "key"}
EnvKeys == {None, "", "envkey"}
FetchWindows == {<<"5", "d">>, <<"0", "d">>, MaxWindow, <<"5", "x">>}

\* the ceiling of 'max' depends on the timespan, so 'max' is called with every
\* timespan; an explicit window is read the same way whatever the timespan is
ExplicitWindowTimespans == {"5m", "day"}

FetchInit ==
    /\ polygon_key \in FetchKeys
    /\ env_key \in EnvKeys
    /\ timespan \in Timespans
    /\ window \in FetchWindows
    /\ window = MaxWindow \/ timespan \in ExplicitWindowTimespans
    /\ pc = "call"
    /\ key = None
    /\ attempts_remaining = 0
    /\ current_delta = 0
    /\ candles = <<>>
    /\ next_url = None
    /\ outcome = "running"
    /\ result = <<>>
    /\ polygon_requests = 0
    /\ yahoo_requests = 0
    /\ rate_limits = 0
    /\ attempt_pages = <<>>
    /\ last_status = 0
    /\ discarded = FALSE
    /\ last_request = NoRequest
    /\ pending_wait = 0
    /\ cursor_fresh = FALSE
    /\ chart = <<>>

\* the other operations are not running
GithubIdle ==
    /\ gh_url = [host |-> "", parts |-> <<>>]
    /\ gh_token = None
    /\ gh_pc = "idle"
    /\ gh_branch = 0
    /\ gh_target = [host |-> "", parts |-> <<>>]
    /\ gh_name = None
    /\ gh_outcome = "running"
    /\ gh_result = <<>>
    /\ gh_requests = <<>>

ServerIdle ==
    /\ req_kind = <<>>
    /\ req_pc = <<>>
    /\ req_attempts = <<>>
    /\ req_pages = <<>>
    /\ loop_owner = 0

ScanIdle ==
    /\ symbols = <<>>
    /\ threshold = 0
    /\ scan_pc = "idle"
    /\ scan_index = 0
    /\ movers = <<>>
    /\ fetched = <<>>

ChangeIdle ==
    /\ change_candles = <<>>
    /\ change_window = <<>>
    /\ change_pc = "idle"
    /\ change_result = [has |-> FALSE, num |-> 0, den |-> 1]

ParseIdle ==
    /\ parse_window = <<>>
    /\ parse_pc = "idle"
    /\ parse_result = [kind |-> "none", days |-> 0]

\* a search response: status_code 0 stands for a request that raised before any
\* response; malformed is a body that is not the JSON object the code reads
\* (not JSON, not an object, rows that are not objects); items is what
\* `... or []` yields
SearchResponse(status, malformed, items) ==
    [status_code |-> status, malformed |-> malformed, items |-> items]

NoResponse == SearchResponse(0, FALSE, <<>>)

SearchIdle ==
    /\ search_key = None
    /\ search_env = None
    /\ search_limit = 0
    /\ search_pc = "idle"
    /\ search_outcome = "running"
    /\ search_result = <<>>
    /\ primary_searches = 0
    /\ suggest_searches = 0
    /\ primary_response = NoResponse
    /\ suggest_response = NoResponse

FetchIdle ==
    /\ polygon_key = None
    /\ env_key = None
    /\ timespan = "15m"
    /\ window = <<>>
    /\ pc = "idle"
    /\ key = None
    /\ attempts_remaining = 0
    /\ current_delta = 0
    /\ candles = <<>>
    /\ next_url = None
    /\ outcome = "running"
    /\ result = <<>>
    /\ polygon_requests = 0
    /\ yahoo_requests = 0
    /\ rate_limits = 0
    /\ attempt_pages = <<>>
    /\ last_status = 0
    /\ discarded = FALSE
    /\ last_request = NoRequest
    /\ pending_wait = 0
    /\ cursor_fresh = FALSE
    /\ chart = <<>>

\* the call ends: it returns r (o = "returned") or raises o
Finish(o, r) ==
    /\ pc' = "done"
    /\ outcome' = o
    /\ result' = r

\* market_data.py:98-103 and 107-142: the provider is chosen and, on the primary
\* path, the window is resolved before the first request
Start ==
    /\ pc = "call"
    /\ key' = _get_polygon_key(polygon_key, env_key)
    /\ IF Truthy(key')
       THEN LET delta == ResolveDelta(timespan, window)
            IN  IF delta.kind # "timedelta"
                THEN /\ Finish(delta.kind, <<>>)
                     /\ UNCHANGED <<attempts_remaining, current_delta>>
                ELSE IF _polygon_timespan(timespan).unit = "ValueError"
                THEN /\ Finish("ValueError", <<>>)
                     /\ UNCHANGED <<attempts_remaining, current_delta>>
                ELSE /\ attempts_remaining' = AttemptBudget
                     /\ current_delta' = delta.days
                     /\ pc' = "loop"
                     /\ UNCHANGED <<outcome, result>>
       ELSE /\ pc' = "yahoo"
            /\ UNCHANGED <<attempts_remaining, current_delta, outcome, result>>
    /\ UNCHANGED <<scanVars, changeVars, parseVars, searchVars,
                   githubVars, serverVars>>
    /\ UNCHANGED <<polygon_key, env_key, timespan, window, candles, next_url,
                   polygon_requests, yahoo_requests, rate_limits, attempt_pages,
                   last_status, discarded, last_request, pending_wait,
                   cursor_fresh, chart>>

\* a 429 on a continuation page leaves the call in the paging loop
BackoffKeepsPaging ==
    /\ attempts_remaining' = attempts_remaining - 1
    /\ current_delta' = Shrink(current_delta)
    /\ rate_limits' = rate_limits + 1
    /\ pending_wait' = CoolDown
    /\ cursor_fresh' = FALSE
    /\ pc' = pc
    /\ UNCHANGED <<outcome, result>>

\* a 429 on a continuation page costs no attempt
BackoffSparesPages ==
    /\ attempts_remaining' = IF pc = "page" THEN attempts_remaining
                             ELSE attempts_remaining - 1
    /\ current_delta' = Shrink(current_delta)
    /\ rate_limits' = rate_limits + 1
    /\ pending_wait' = CoolDown
    /\ cursor_fresh' = FALSE
    /\ pc' = "loop"
    /\ UNCHANGED <<outcome, result>>

\* market_data.py:151-156 and 180-184: a 429 costs one attempt and halves the range
Backoff ==
    /\ attempts_remaining' = attempts_remaining - 1
    /\ current_delta' = Shrink(current_delta)
    /\ rate_limits' = rate_limits + 1
    /\ pending_wait' = CoolDown
    /\ cursor_fresh' = FALSE
    /\ pc' = "loop"
    /\ UNCHANGED <<outcome, result>>

\* market_data.py:158-171 and 185-202: a page is merged; the call returns when no
\* cursor follows
Consume(acc, resp) ==
    IF \E i \in 1..Len(resp.results) : ~RowComplete(resp.results[i])
    THEN /\ Finish("KeyError", <<>>)
         /\ UNCHANGED <<candles, next_url, cursor_fresh>>
    ELSE /\ candles' = ExtendCandles(acc, resp.results)
         /\ next_url' = NextUrl(resp)
         /\ cursor_fresh' = TRUE
         /\ IF Truthy(next_url')
            THEN pc' = "page" /\ UNCHANGED <<outcome, result>>
            ELSE Finish("returned", candles')

\* market_data.py:144-171: the head of the retry loop and the initial request
InitialRequest ==
    /\ pc = "loop"
    /\ attempts_remaining > 0
    /\ \E resp \in PolygonResponses(MaxPages > 0) :
        /\ last_request' = RangedRequest(current_delta, key, pending_wait)
        /\ last_status' = resp.status_code
        /\ polygon_requests' = polygon_requests + 1
        /\ IF resp.status_code = 0
           THEN /\ Finish("ConnectionError", <<>>)
                /\ candles' = NewAttemptCandles(candles)
                /\ attempt_pages' = <<>>
                /\ pending_wait' = 0
                /\ UNCHANGED <<attempts_remaining, current_delta, rate_limits,
                               next_url, cursor_fresh>>
           ELSE IF IsRateLimited(resp.status_code)
           THEN /\ Backoff
                /\ candles' = NewAttemptCandles(candles)
                /\ attempt_pages' = <<>>
                /\ UNCHANGED next_url
           ELSE IF RaisesForStatus(resp.status_code)
           THEN /\ Finish("HTTPError", <<>>)
                /\ candles' = NewAttemptCandles(candles)
                /\ attempt_pages' = <<>>
                /\ pending_wait' = 0
                /\ UNCHANGED <<attempts_remaining, current_delta, rate_limits,
                               next_url, cursor_fresh>>
           ELSE /\ Consume(NewAttemptCandles(candles), resp)
                /\ attempt_pages' = <<resp.results>>
                /\ pending_wait' = 0
                /\ UNCHANGED <<attempts_remaining, current_delta, rate_limits>>
    /\ UNCHANGED <<scanVars, changeVars, parseVars, searchVars,
                   githubVars, serverVars>>
    /\ UNCHANGED <<polygon_key, env_key, timespan, window, key, yahoo_requests,
                   discarded, chart>>

\* market_data.py:172-202: one continuation page
PageRequest ==
    /\ pc = "page"
    /\ \E resp \in PolygonResponses(Len(attempt_pages) < MaxPages) :
        /\ last_request' = ContinuationRequest(last_request.days,
                                               PageUrl(next_url, key),
                                               pending_wait + PageDelay)
        /\ last_status' = resp.status_code
        /\ polygon_requests' = polygon_requests + 1
        /\ IF resp.status_code = 0
           THEN /\ Finish("ConnectionError", <<>>)
                /\ pending_wait' = 0
                /\ UNCHANGED <<attempts_remaining, current_delta, rate_limits,
                               candles, next_url, attempt_pages, discarded,
                               cursor_fresh>>
           ELSE IF IsRateLimited(resp.status_code)
           THEN /\ Backoff
                /\ discarded' = (discarded \/ candles # <<>>)
                /\ UNCHANGED <<candles, next_url, attempt_pages>>
           ELSE IF RaisesForStatus(resp.status_code)
           THEN /\ Finish("HTTPError", <<>>)
                /\ pending_wait' = 0
                /\ UNCHANGED <<attempts_remaining, current_delta, rate_limits,
                               candles, next_url, attempt_pages, discarded,
                               cursor_fresh>>
           ELSE /\ Consume(candles, resp)
                /\ attempt_pages' = Append(attempt_pages, resp.results)
                /\ pending_wait' = 0
                /\ UNCHANGED <<attempts_remaining, current_delta, rate_limits,
                               discarded>>
    /\ UNCHANGED <<scanVars, changeVars, parseVars, searchVars,
                   githubVars, serverVars>>
    /\ UNCHANGED <<polygon_key, env_key, timespan, window, key, yahoo_requests,
                   chart>>

\* the loop spins on a spent budget instead of raising
SpinAtZero ==
    /\ pc = "loop"
    /\ attempts_remaining = 0
    /\ UNCHANGED vars

\* market_data.py:144 and 205: the budget is spent, the loop ends and the call raises
RaiseRateLimit ==
    /\ pc = "loop"
    /\ attempts_remaining = 0
    /\ Finish("RateLimitError", <<>>)
    /\ UNCHANGED <<scanVars, changeVars, parseVars, searchVars,
                   githubVars, serverVars>>
    /\ UNCHANGED <<polygon_key, env_key, timespan, window, key, attempts_remaining,
                   current_delta, candles, next_url, polygon_requests,
                   yahoo_requests, rate_limits, attempt_pages, last_status,
                   discarded, last_request, pending_wait, cursor_fresh, chart>>

\* market_data.py:208-248: the single request of the free path, answered from the
\* given set of responses
ChartRequestFrom(responses) ==
    /\ pc = "yahoo"
    /\ \E resp \in responses :
        /\ last_request' = ChartRequest
        /\ chart' = resp.result
        /\ last_status' = resp.status_code
        /\ yahoo_requests' = yahoo_requests + 1
        /\ IF resp.status_code = 0
           THEN Finish("ConnectionError", <<>>) /\ UNCHANGED candles
           ELSE IF RaisesForStatus(resp.status_code)
           THEN Finish("HTTPError", <<>>) /\ UNCHANGED candles
           ELSE IF resp.result = <<>>
           THEN Finish("NoChartData", <<>>) /\ UNCHANGED candles
           ELSE /\ candles' = YahooCandles(resp.result[1])
                /\ Finish("returned", candles')
    /\ UNCHANGED <<scanVars, changeVars, parseVars, searchVars,
                   githubVars, serverVars>>
    /\ UNCHANGED <<polygon_key, env_key, timespan, window, key, attempts_remaining,
                   current_delta, next_url, polygon_requests, rate_limits,
                   attempt_pages, discarded, pending_wait, cursor_fresh>>

\* market_data.py:208-248: the free path of one fetch_candles call
YahooRequest == ChartRequestFrom(YahooResponses)

Init == FetchInit /\ ScanIdle /\ ChangeIdle /\ ParseIdle /\ SearchIdle
    /\ GithubIdle /\ ServerIdle

Next ==
    \/ Start
    \/ InitialRequest
    \/ PageRequest
    \/ RaiseRateLimit
    \/ YahooRequest

Spec == Init /\ [][Next]_vars

----------------------------------------------------------------------------
\* Claims about fetch_candles

\* a credential resolves: the explicit argument or the environment default is a
\* non-empty string
Resolvable == Truthy(polygon_key) \/ Truthy(env_key)

\* C1: with a resolvable credential no request ever goes to the free provider and
\* a failure of the primary provider (no response, an error status, the spent
\* rate-limit budget) is what the call ends with; without one, no request goes to
\* the primary provider, the free provider gets exactly one request and its
\* failure ends the call at once.
C1_ProviderSelection ==
    /\ Resolvable =>
          /\ yahoo_requests = 0
          /\ (pc = "done" /\ polygon_requests > 0 /\ last_status = 0)
                => outcome = "ConnectionError"
          /\ (pc = "done" /\ polygon_requests > 0 /\ last_status \in {404, 500})
                => outcome = "HTTPError"
          /\ (pc = "done" /\ polygon_requests > 0 /\ last_status = 429)
                => outcome = "RateLimitError"
    /\ ~Resolvable =>
          /\ polygon_requests = 0
          /\ yahoo_requests <= 1
          /\ pc = "done" => yahoo_requests = 1
          /\ (pc = "done" /\ last_status = 0) => outcome = "ConnectionError"
          /\ (pc = "done" /\ last_status \in {404, 429, 500}) => outcome = "HTTPError"
          /\ yahoo_requests = 1 => pc = "done"

\* the environment default resolved and the primary provider's error ended the call
C1_Witness ==
    /\ pc = "done"
    /\ ~Truthy(polygon_key)
    /\ Truthy(env_key)
    /\ outcome = "HTTPError"
    /\ polygon_requests >= 2

\* C2: when every response is a 429 the call raises the rate-limit error after
\* exactly 5 requests; whenever 5 rate-limits have been handled, on initial requests
\* or continuation pages in any mix, no further request is sent and the call raises
\* the rate-limit error, returning no list.
C2_BudgetExhausted ==
    /\ (polygon_requests > 0 /\ rate_limits = polygon_requests) =>
          /\ polygon_requests <= 5
          /\ outcome \in {"running", "RateLimitError"}
          /\ pc = "done" => polygon_requests = 5
    /\ rate_limits = 5 =>
          \/ /\ pc = "loop"
             /\ outcome = "running"
             /\ ~ENABLED InitialRequest
             /\ ~ENABLED PageRequest
             /\ ENABLED RaiseRateLimit
          \/ /\ pc = "done"
             /\ outcome = "RateLimitError"
             /\ result = <<>>
    /\ outcome = "RateLimitError" => rate_limits = 5

\* five 429s in a row ended the call
C2_Witness ==
    /\ outcome = "RateLimitError"
    /\ polygon_requests = 5
    /\ rate_limits = 5

RECURSIVE ConcatPages(_)
\* the candles of a sequence of pages, page after page
ConcatPages(pages) ==
    IF pages = <<>> THEN <<>>
    ELSE [i \in 1..Len(Head(pages)) |-> ToCandle(Head(pages)[i])]
         \o ConcatPages(Tail(pages))

\* C3: a list returned on the primary path is the concatenation, in page order, of
\* the pages of the last attempt, whose last page carried no cursor; nothing of an
\* abandoned attempt is in it.
C3_LastAttemptOnly ==
    (pc = "done" /\ outcome = "returned" /\ Resolvable) =>
        /\ Len(attempt_pages) >= 1
        /\ result = ConcatPages(attempt_pages)
        /\ ~Truthy(next_url)

\* a list of several pages is returned after an attempt that held candles was
\* abandoned on a continuation page and another on its initial request
C3_Witness ==
    /\ pc = "done"
    /\ outcome = "returned"
    /\ Resolvable
    /\ discarded
    /\ rate_limits >= 2
    /\ Len(attempt_pages) >= 2
    /\ Len(result) >= 2

\* C4: a response with an error status other than 429, to an initial or a
\* continuation request, ends the call with that error in the same step: the
\* budget and the duration are untouched, nothing is returned and no request
\* follows.
C4_FailFast ==
    [][ /\ (/\ polygon_requests' = polygon_requests + 1
            /\ last_status' >= 400
            /\ last_status' # 429)
          => /\ pc' = "done"
             /\ outcome' = "HTTPError"
             /\ result' = <<>>
             /\ attempts_remaining' = attempts_remaining
             /\ current_delta' = current_delta
             /\ rate_limits' = rate_limits
        /\ outcome = "HTTPError"
          => /\ polygon_requests' = polygon_requests
             /\ yahoo_requests' = yahoo_requests
      ]_vars

\* an error status on a continuation page ended a call that held candles
C4_Witness ==
    /\ pc = "done"
    /\ outcome = "HTTPError"
    /\ Resolvable
    /\ polygon_requests >= 2
    /\ rate_limits = 1
    /\ candles # <<>>
    /\ result = <<>>

----------------------------------------------------------------------------
\* compute_change_percent

\* An Optional[float]: has = FALSE is None; otherwise the value is the exact
\* quotient num / den (den # 0), which the code rounds to a float.
NoValue == [has |-> FALSE, num |-> 0, den |-> 1]
Quotient(n, d) == [has |-> TRUE, num |-> n, den |-> d]

Abs(x) == IF x < 0 THEN 0 - x ELSE x

\* a change computed from the last candle's open instead of the first candle's
ChangeFromLastOpen(cs, w) ==
    IF Len(cs) = 0 THEN NoValue
    ELSE LET start == cs[Len(cs)].o
             end   == cs[Len(cs)].c
         IN  IF start = 0 THEN NoValue
             ELSE Quotient((end - start) * 100, start)

\* market_data.py:279-287
compute_change_percent(cs, w) ==
    IF Len(cs) = 0 THEN NoValue
    ELSE LET start == cs[1].o
             end   == cs[Len(cs)].c
         IN  IF start = 0 THEN NoValue
             ELSE Quotient((end - start) * 100, start)

\* abs(p) >= abs(q) for two values
AbsGeq(p, q) == Abs(p.num) * Abs(q.den) >= Abs(q.num) * Abs(p.den)

\* main.py:100: abs(pct) >= payload.threshold
MeetsThreshold(pct, thr) == Abs(pct.num) >= thr * Abs(pct.den)

\* a candle with open o and close c at time t
Bar(t, o, c) ==
    [t |-> t, o |-> o, h |-> IF o > c THEN o ELSE c, l |-> IF o > c THEN c ELSE o,
     c |-> c, v |-> 0]

----------------------------------------------------------------------------
\* POST /api/bigmovers

\* most symbols in one request
MaxSymbols == 3

SymbolSet == {"aapl", "MSFT", "TSLA"}

\* str.upper on the symbols of the model
Upper(sym) == IF sym = "aapl" THEN "AAPL" ELSE sym

Thresholds == {10, 50}

\* what fetch_candles can do for one symbol: raise, or return a list
ScanCandleLists ==
    { <<>>,
      <<Bar(1000, 0, 10)>>,
      <<Bar(1000, 100, 150)>>,
      <<Bar(1000, 100, 80)>>,
      <<Bar(1000, 100, 110)>>,
      <<Bar(1000, 200, 210), Bar(2000, 150, 100)>> }

FetchOutcomes ==
    {[raised |-> TRUE, candles |-> <<>>]}
    \cup {[raised |-> FALSE, candles |-> cs] : cs \in ScanCandleLists}

SeqsUpTo(S, n) == UNION {[1..k -> S] : k \in 0..n}

ScanInit ==
    /\ symbols \in SeqsUpTo(SymbolSet, MaxSymbols)
    /\ threshold \in Thresholds
    /\ scan_pc = "scan"
    /\ scan_index = 1
    /\ movers = <<>>
    /\ fetched = <<>>

RECURSIVE InsertByAbs(_, _)
\* m placed behind every entry whose absolute change is not smaller
InsertByAbs(sorted, m) ==
    IF sorted = <<>> THEN <<m>>
    ELSE IF AbsGeq(Head(sorted).change_pct, m.change_pct)
         THEN <<Head(sorted)>> \o InsertByAbs(Tail(sorted), m)
         ELSE <<m>> \o sorted

RECURSIVE SortedByAbs(_)
SortedByAbs(ms) ==
    IF ms = <<>> THEN <<>>
    ELSE InsertByAbs(SortedByAbs(SubSeq(ms, 1, Len(ms) - 1)), ms[Len(ms)])

\* a response that keeps the order of collection
Unsorted(ms) == ms

\* main.py:104: movers.sort(key=lambda x: abs(x["change_pct"]), reverse=True),
\* a stable sort
SortMovers(ms) == SortedByAbs(ms)

\* a failure that ends the loop
AbortScan(i, n) == n + 1

\* main.py:102-103: `except Exception: continue` goes on with the next symbol
AfterFailure(i, n) == i + 1

\* main.py:98-101
Collected(ms, sym, cs, thr) ==
    LET pct == compute_change_percent(cs, <<>>)
    IN  IF pct.has /\ MeetsThreshold(pct, thr)
        THEN Append(ms, [symbol |-> Upper(sym), change_pct |-> pct])
        ELSE ms

\* main.py:96-103: one turn of the loop
ScanSymbol ==
    /\ scan_pc = "scan"
    /\ scan_index <= Len(symbols)
    /\ \E out \in FetchOutcomes :
        /\ fetched' = Append(fetched, out)
        /\ IF out.raised
           THEN /\ scan_index' = AfterFailure(scan_index, Len(symbols))
                /\ UNCHANGED movers
           ELSE /\ movers' = Collected(movers, symbols[scan_index], out.candles,
                                       threshold)
                /\ scan_index' = scan_index + 1
    /\ UNCHANGED <<symbols, threshold, scan_pc>>
    /\ UNCHANGED <<fetchVars, changeVars, parseVars, searchVars,
                   githubVars, serverVars>>

\* main.py:104-105: the loop is over, the list is sorted and returned
ScanReturn ==
    /\ scan_pc = "scan"
    /\ scan_index > Len(symbols)
    /\ movers' = SortMovers(movers)
    /\ scan_pc' = "done"
    /\ UNCHANGED <<symbols, threshold, scan_index, fetched>>
    /\ UNCHANGED <<fetchVars, changeVars, parseVars, searchVars,
                   githubVars, serverVars>>

InitMovers == FetchIdle /\ ScanInit /\ ChangeIdle /\ ParseIdle /\ SearchIdle
    /\ GithubIdle /\ ServerIdle

NextMovers ==
    \/ ScanSymbol
    \/ ScanReturn

SpecMovers == InitMovers /\ [][NextMovers]_vars

----------------------------------------------------------------------------
\* Claims about the big-movers scan

\* the symbols visited, each with what its fetch did
ScanEntries ==
    [i \in 1..Len(fetched) |-> [symbol |-> symbols[i], out |-> fetched[i]]]

Succeeded(e) == ~e.out.raised

RECURSIVE MoversOf(_, _)
\* the unsorted list the scan builds from entries none of which failed
MoversOf(entries, thr) ==
    IF entries = <<>> THEN <<>>
    ELSE Collected(MoversOf(SubSeq(entries, 1, Len(entries) - 1), thr),
                   entries[Len(entries)].symbol,
                   entries[Len(entries)].out.candles, thr)

\* C5: when the scan has returned, every symbol has been fetched whatever the
\* earlier ones did, and the response is the one the scan gives for the input
\* without the symbols whose fetch raised; no entry of it comes from such a symbol.
C5_FailureIsolation ==
    scan_pc = "done" =>
        /\ Len(fetched) = Len(symbols)
        /\ movers = SortMovers(MoversOf(SelectSeq(ScanEntries, Succeeded), threshold))
        /\ \A j \in 1..Len(movers) :
              \E i \in 1..Len(fetched) :
                  /\ ~fetched[i].raised
                  /\ movers[j].symbol = Upper(symbols[i])

\* [A, B, C] with B's fetch raising: A and C are in the response
C5_Witness ==
    /\ scan_pc = "done"
    /\ symbols = <<"aapl", "MSFT", "TSLA">>
    /\ ~fetched[1].raised
    /\ fetched[2].raised
    /\ ~fetched[3].raised
    /\ Len(movers) = 2
    /\ {movers[1].symbol, movers[2].symbol} = {"AAPL", "TSLA"}

\* position i was fetched, has a change and the change meets the threshold,
\* computed from the first open and the last close of the fetched candles
Qualifies(i) ==
    /\ ~fetched[i].raised
    /\ Len(fetched[i].candles) > 0
    /\ fetched[i].candles[1].o # 0
    /\ LET cs == fetched[i].candles
       IN  Abs((cs[Len(cs)].c - cs[1].o) * 100) >= threshold * Abs(cs[1].o)

\* the upper-cased symbol and the candles' end points behind a mover
IsMoverOf(m, i) ==
    /\ m.symbol = Upper(symbols[i])
    /\ LET cs == fetched[i].candles
       IN  /\ m.change_pct.has
           /\ m.change_pct.den # 0
           /\ m.change_pct.num * cs[1].o
                 = (cs[Len(cs)].c - cs[1].o) * 100 * m.change_pct.den

\* C6: the response holds one entry for each input position that qualifies and
\* nothing else, and it is in descending order of absolute change.
C6_FilteredAndSorted ==
    scan_pc = "done" =>
        /\ Len(movers) = Cardinality({i \in 1..Len(symbols) : Qualifies(i)})
        /\ \A i \in 1..Len(symbols) :
              Qualifies(i) => \E j \in 1..Len(movers) : IsMoverOf(movers[j], i)
        /\ \A j \in 1..Len(movers) :
              \E i \in 1..Len(symbols) : Qualifies(i) /\ IsMoverOf(movers[j], i)
        /\ \A j \in 1..(Len(movers) - 1) :
              AbsGeq(movers[j].change_pct, movers[j + 1].change_pct)

\* three movers given in ascending order of absolute change come back reversed
C6_Witness ==
    /\ scan_pc = "done"
    /\ symbols = <<"aapl", "MSFT", "TSLA">>
    /\ Len(movers) = 3
    /\ movers[1].symbol = "TSLA"
    /\ movers[2].symbol = "MSFT"
    /\ movers[3].symbol = "AAPL"
    /\ ~AbsGeq(movers[3].change_pct, movers[2].change_pct)
    /\ ~AbsGeq(movers[2].change_pct, movers[1].change_pct)

----------------------------------------------------------------------------
\* One call of compute_change_percent

\* longest candle list given to compute_change_percent
MaxCandles == 3

ChangeCandles == {Bar(1000, o, c) : o \in {0, 100, 200}, c \in {100, 150}}

ChangeWindows == {<<"1", "d">>, MaxWindow}

ChangeInit ==
    /\ change_candles \in SeqsUpTo(ChangeCandles, MaxCandles)
    /\ change_window \in ChangeWindows
    /\ change_pc = "call"
    /\ change_result = NoValue

\* market_data.py:279-287
ComputeChange ==
    /\ change_pc = "call"
    /\ change_result' = compute_change_percent(change_candles, change_window)
    /\ change_pc' = "done"
    /\ UNCHANGED <<change_candles, change_window>>
    /\ UNCHANGED <<fetchVars, scanVars, parseVars, searchVars,
                   githubVars, serverVars>>

InitChange == FetchIdle /\ ScanIdle /\ ChangeInit /\ ParseIdle /\ SearchIdle
    /\ GithubIdle /\ ServerIdle

NextChange == ComputeChange

SpecChange == InitChange /\ [][NextChange]_vars

\* C9: no value for an empty list or a first open of zero; otherwise the value v
\* with v * firstOpen = (lastClose - firstOpen) * 100, whatever lies between the
\* first and the last candle and whatever the window; open 100 and close 150
\* give 50.
C9_ChangePercent ==
    change_pc = "done" =>
        LET cs == change_candles
            r  == change_result
        IN  /\ (Len(cs) = 0 \/ cs[1].o = 0) <=> ~r.has
            /\ r.has =>
                  /\ r.den # 0
                  /\ r.num * cs[1].o = (cs[Len(cs)].c - cs[1].o) * 100 * r.den
            /\ (Len(cs) > 0 /\ cs[1].o = 100 /\ cs[Len(cs)].c = 150)
                  => r.num = 50 * r.den

\* three candles whose first open and last close differ from the middle ones
C9_Witness ==
    /\ change_pc = "done"
    /\ Len(change_candles) = 3
    /\ change_candles[1].o = 100
    /\ change_candles[2].o = 200
    /\ change_candles[3].o = 200
    /\ change_candles[3].c = 150
    /\ change_result.has
    /\ change_result.num = 50 * change_result.den

----------------------------------------------------------------------------
\* One call of _parse_window

\* longest window string given to _parse_window
MaxWindowLen == 3

WindowAlphabet == {"0", "1", "7", "-", "d", "w", "m", "y", "x", "a"}

ParseInit ==
    /\ parse_window \in SeqsUpTo(WindowAlphabet, MaxWindowLen)
    /\ parse_pc = "call"
    /\ parse_result = [kind |-> "none", days |-> 0]

\* market_data.py:39-55
ParseWindow ==
    /\ parse_pc = "call"
    /\ parse_result' = _parse_window(parse_window)
    /\ parse_pc' = "done"
    /\ UNCHANGED parse_window
    /\ UNCHANGED <<fetchVars, scanVars, changeVars, searchVars,
                   githubVars, serverVars>>

InitParse == FetchIdle /\ ScanIdle /\ ChangeIdle /\ ParseInit /\ SearchIdle
    /\ GithubIdle /\ ServerIdle

NextParse == ParseWindow

SpecParse == InitParse /\ [][NextParse]_vars

Units == {"d", "w", "m", "y"}

DaysPerUnit(unit) ==
    CASE unit = "d" -> 1
      [] unit = "w" -> 7
      [] unit = "m" -> 30
      [] unit = "y" -> 365

DecimalDigit(ch) ==
    CASE ch = "0" -> 0 [] ch = "1" -> 1 [] ch = "2" -> 2 [] ch = "3" -> 3
      [] ch = "4" -> 4 [] ch = "5" -> 5 [] ch = "6" -> 6 [] ch = "7" -> 7
      [] ch = "8" -> 8 [] ch = "9" -> 9

IsDecimal(s) ==
    /\ Len(s) > 0
    /\ \A i \in 1..Len(s) :
          s[i] \in {"0", "1", "2", "3", "4", "5", "6", "7", "8", "9"}

RECURSIVE Pow10(_)
Pow10(n) == IF n = 0 THEN 1 ELSE 10 * Pow10(n - 1)

RECURSIVE DecimalValue(_)
\* the number a sequence of decimal digits denotes, most significant digit first
DecimalValue(s) ==
    IF s = <<>> THEN 0
    ELSE DecimalDigit(Head(s)) * Pow10(Len(s) - 1) + DecimalValue(Tail(s))

\* w is <int><unit>: an optionally negative decimal number and one of d, w, m, y
IsWindowForm(w) ==
    /\ Len(w) >= 2
    /\ w[Len(w)] \in Units
    /\ LET number == SubSeq(w, 1, Len(w) - 1)
       IN  IF Head(number) = "-" THEN IsDecimal(Tail(number)) ELSE IsDecimal(number)

WindowNumber(w) ==
    LET number == SubSeq(w, 1, Len(w) - 1)
    IN  IF Head(number) = "-" THEN 0 - DecimalValue(Tail(number))
        ELSE DecimalValue(number)

\* C10: a window <int><d|w|m|y> parses to int x 1, 7, 30 or 365 days; a window
\* whose last character is none of d, w, m, y raises ValueError.
C10_ParseWindow ==
    parse_pc = "done" =>
        /\ IsWindowForm(parse_window) =>
              /\ parse_result.kind = "timedelta"
              /\ parse_result.days
                    = WindowNumber(parse_window)
                      * DaysPerUnit(parse_window[Len(parse_window)])
        /\ (Len(parse_window) > 0 /\ parse_window[Len(parse_window)] \notin Units)
              => parse_result.kind = "ValueError"

\* '17w' parsed to 119 days
C10_Witness ==
    /\ parse_pc = "done"
    /\ parse_window = <<"1", "7", "w">>
    /\ parse_result.kind = "timedelta"
    /\ parse_result.days = 119

----------------------------------------------------------------------------
\* One call of search_symbols

\* largest limit argument
MaxLimit == 1

\* most rows in one provider response
MaxItems == 2

\* dict.get(field, default)
Get(row, field, default) == IF field \in DOMAIN row THEN row[field] ELSE default

\* dict.get(field) or ""
GetOrEmpty(row, field) ==
    IF field \in DOMAIN row /\ Truthy(row[field]) THEN row[field] ELSE ""

\* seq[:n]
Prefix(seq, n) ==
    IF n >= 0 THEN SubSeq(seq, 1, Min(n, Len(seq)))
    ELSE SubSeq(seq, 1, IF Len(seq) + n > 0 THEN Len(seq) + n ELSE 0)

\* rows of the primary provider's reference-ticker search
TickerRows ==
    { [ticker |-> "AAPL", name |-> "Apple Inc."],
      [ticker |-> "MSFT"],
      [name |-> "Unlisted"] }

\* rows of the free provider's ResultSet.Result
SuggestRows ==
    { [symbol |-> "AAPL", name |-> "Apple Inc."],
      [symbol |-> "", name |-> "Blank"],
      [symbol |-> None, name |-> None],
      [name |-> "Unlisted"] }

SearchResponses(rows) ==
    {SearchResponse(st, FALSE, <<>>) : st \in {0, 429} \cup ErrorStatuses}
    \cup {SearchResponse(200, TRUE, <<>>)}
    \cup {SearchResponse(200, FALSE, items) : items \in SeqsUpTo(rows, MaxItems)}

SearchInit ==
    /\ search_key \in FetchKeys
    /\ search_env \in EnvKeys
    /\ search_limit \in 0..MaxLimit
    /\ search_pc = "call"
    /\ search_outcome = "running"
    /\ search_result = <<>>
    /\ primary_searches = 0
    /\ suggest_searches = 0
    /\ primary_response = NoResponse
    /\ suggest_response = NoResponse

SearchFinish(o, r) ==
    /\ search_pc' = "done"
    /\ search_outcome' = o
    /\ search_result' = r

\* the exception a response makes the code raise, "none" when it raises nothing
RaisedBy(resp) ==
    IF resp.status_code = 0 THEN "ConnectionError"
    ELSE IF RaisesForStatus(resp.status_code) THEN "HTTPError"
    ELSE IF resp.malformed THEN "AttributeError"
    ELSE "none"

\* market_data.py:260
PrimaryMatches(results) ==
    [i \in 1..Len(results) |->
        [symbol |-> Get(results[i], "ticker", ""), name |-> Get(results[i], "name", "")]]

RECURSIVE SuggestMatches(_)
\* market_data.py:270-276
SuggestMatches(items) ==
    IF items = <<>> THEN <<>>
    ELSE LET sym  == GetOrEmpty(Head(items), "symbol")
             name == GetOrEmpty(Head(items), "name")
         IN  IF sym # "" THEN <<[symbol |-> sym, name |-> name]>>
                              \o SuggestMatches(Tail(items))
             ELSE SuggestMatches(Tail(items))

\* a handler that swallows the rate-limit error only
CatchesRateLimitOnly(exc, status) == exc = "HTTPError" /\ status = 429

\* market_data.py:261-262: `except Exception: pass`
Catches(exc, status) == TRUE

\* market_data.py:252-253
SearchStart ==
    /\ search_pc = "call"
    /\ search_pc' = IF Truthy(_get_polygon_key(search_key, search_env))
                    THEN "primary" ELSE "suggest"
    /\ UNCHANGED <<search_key, search_env, search_limit, search_outcome,
                   search_result, primary_searches, suggest_searches,
                   primary_response, suggest_response>>
    /\ UNCHANGED <<fetchVars, scanVars, changeVars, parseVars,
                   githubVars, serverVars>>

\* market_data.py:254-262
SearchPrimary ==
    /\ search_pc = "primary"
    /\ \E resp \in SearchResponses(TickerRows) :
        /\ primary_response' = resp
        /\ primary_searches' = primary_searches + 1
        /\ IF RaisedBy(resp) = "none"
           THEN SearchFinish("returned", PrimaryMatches(resp.items))
           ELSE IF Catches(RaisedBy(resp), resp.status_code)
           THEN /\ search_pc' = "suggest"
                /\ UNCHANGED <<search_outcome, search_result>>
           ELSE SearchFinish(RaisedBy(resp), <<>>)
    /\ UNCHANGED <<search_key, search_env, search_limit, suggest_searches,
                   suggest_response>>
    /\ UNCHANGED <<fetchVars, scanVars, changeVars, parseVars,
                   githubVars, serverVars>>

\* market_data.py:263-276
SearchSuggest ==
    /\ search_pc = "suggest"
    /\ \E resp \in SearchResponses(SuggestRows) :
        /\ suggest_response' = resp
        /\ suggest_searches' = suggest_searches + 1
        /\ IF RaisedBy(resp) = "none"
           THEN SearchFinish("returned",
                             SuggestMatches(Prefix(resp.items, search_limit)))
           ELSE SearchFinish(RaisedBy(resp), <<>>)
    /\ UNCHANGED <<search_key, search_env, search_limit, primary_searches,
                   primary_response>>
    /\ UNCHANGED <<fetchVars, scanVars, changeVars, parseVars,
                   githubVars, serverVars>>

InitSearch == FetchIdle /\ ScanIdle /\ ChangeIdle /\ ParseIdle /\ SearchInit
    /\ GithubIdle /\ ServerIdle

NextSearch ==
    \/ SearchStart
    \/ SearchPrimary
    \/ SearchSuggest

SpecSearch == InitSearch /\ [][NextSearch]_vars

----------------------------------------------------------------------------
\* Claims about search_symbols

SearchResolvable == Truthy(search_key) \/ Truthy(search_env)

\* the primary search failed: no response, a 4xx/5xx status, or a body the code
\* cannot read
PrimaryFailed ==
    /\ primary_searches = 1
    /\ \/ primary_response.status_code \in {0, 404, 429, 500}
       \/ primary_response.malformed

\* C7: with a resolvable credential a failed primary search is never the outcome:
\* the suggest endpoint is queried once and the call ends as that query does, with
\* its error or with matches taken from its rows; after a successful primary search
\* the suggest endpoint is not queried and the primary's matches are returned.
C7_SearchFallback ==
    (search_pc = "done" /\ SearchResolvable) =>
        /\ primary_searches = 1
        /\ PrimaryFailed =>
              /\ suggest_searches = 1
              /\ suggest_response.status_code = 0
                    => search_outcome = "ConnectionError"
              /\ suggest_response.status_code \in {404, 429, 500}
                    => search_outcome = "HTTPError"
              /\ suggest_response.malformed => search_outcome = "AttributeError"
              /\ (suggest_response.status_code = 200 /\ ~suggest_response.malformed)
                    => /\ search_outcome = "returned"
                       /\ \A i \in 1..Len(search_result) :
                             \E j \in 1..Len(suggest_response.items) :
                                 /\ "symbol" \in DOMAIN suggest_response.items[j]
                                 /\ suggest_response.items[j].symbol
                                       = search_result[i].symbol
        /\ ~PrimaryFailed =>
              /\ suggest_searches = 0
              /\ search_outcome = "returned"
              /\ Len(search_result) = Len(primary_response.items)
              /\ \A i \in 1..Len(search_result) :
                    "ticker" \in DOMAIN primary_response.items[i]
                        => search_result[i].symbol = primary_response.items[i].ticker

\* the primary search answered 500 and the call returned the free provider's match
C7_Witness ==
    /\ search_pc = "done"
    /\ SearchResolvable
    /\ primary_response.status_code = 500
    /\ suggest_searches = 1
    /\ search_outcome = "returned"
    /\ Len(search_result) = 1

\* C8: a returned list has at most limit entries and no entry whose symbol is the
\* empty string, whichever provider answered.
C8_LimitAndNoEmptySymbol ==
    (search_pc = "done" /\ search_outcome = "returned") =>
        /\ Len(search_result) <= search_limit
        /\ \A i \in 1..Len(search_result) : search_result[i].symbol # ""

----------------------------------------------------------------------------
\* Claims about the retry loop of the primary path

\* the ceilings of the window 'max', in days
C11_Ceiling ==
    CASE timespan = "1m" -> 7
      [] timespan = "5m" -> 30
      [] timespan = "15m" -> 60
      [] timespan = "1h" -> 365
      [] timespan = "day" -> 7300
      [] timespan = "month" -> 10950

\* C11: on the primary path the window 'max' never reaches the generic parser (the
\* call does not end with the parser's error); it resolves to 7, 30, 60, 365, 7300
\* or 10950 days for the timespans 1m, 5m, 15m, 1h, day, month, and the first
\* request of the call asks for exactly that many days.
C11_MaxCeiling ==
    (window = MaxWindow /\ Resolvable /\ pc # "call") =>
        /\ outcome # "ValueError"
        /\ (pc = "loop" /\ polygon_requests = 0) => current_delta = C11_Ceiling
        /\ polygon_requests = 1 =>
              /\ last_request.kind = "initial"
              /\ last_request.days = C11_Ceiling

\* the first request of a daily 'max' call asked for twenty years
C11_Witness ==
    /\ window = MaxWindow
    /\ timespan = "day"
    /\ polygon_requests = 1
    /\ last_request.days = 7300
    /\ last_status = 200

----------------------------------------------------------------------------
\* The free path of fetch_candles over a wide range of chart payloads

MaxRows == 3

\* the timestamp arrays: second-granularity, one per row
TimestampArrays == {[i \in 1..n |-> <<10 * i>>] : n \in 0..MaxRows}

\* every array of at most MaxRows entries, each null or the number base + index - 1
OptionArrays(base) ==
    {[i \in 1..n |-> IF i \in nulls THEN <<>> ELSE <<base + i - 1>>] :
        n \in 0..MaxRows, nulls \in SUBSET (1..MaxRows)}

\* three shapes of an array: complete, with a null at the second index, and one
\* entry long
ShapedArrays(base) ==
    { [i \in 1..MaxRows |-> <<base + i>>],
      [i \in 1..MaxRows |-> IF i = 2 THEN <<>> ELSE <<base + i>>],
      <<<<base>>>> }

\* the volume array: absent, complete, or with a null at the first index
VolumeArrays ==
    { <<>>,
      [i \in 1..MaxRows |-> <<i>>],
      [i \in 1..MaxRows |-> IF i = 1 THEN <<>> ELSE <<i>>] }

WideChartResults ==
    {ChartResult(ts, o, h, l, c, v) :
        ts \in TimestampArrays, o \in OptionArrays(0), h \in ShapedArrays(200),
        l \in ShapedArrays(50), c \in OptionArrays(100), v \in VolumeArrays}

WideYahooResponses ==
    {[status_code |-> 200, result |-> <<>>], [status_code |-> 500, result |-> <<>>]}
    \cup {[status_code |-> 200, result |-> <<r>>] : r \in WideChartResults}

\* a call without any credential
ChartInit ==
    /\ FetchInit
    /\ polygon_key = None
    /\ env_key = None
    /\ timespan = "day"
    /\ window = <<"5", "d">>

WideChartRequest == ChartRequestFrom(WideYahooResponses)

InitChart == ChartInit /\ ScanIdle /\ ChangeIdle /\ ParseIdle /\ SearchIdle
    /\ GithubIdle /\ ServerIdle

NextChart ==
    \/ Start
    \/ WideChartRequest

SpecChart == InitChart /\ [][NextChart]_vars

\* the indices below the shortest of the five arrays
C12_Below(res0) ==
    {i \in 1..Len(res0.timestamp) :
        /\ i <= Len(res0.open)
        /\ i <= Len(res0.high)
        /\ i <= Len(res0.low)
        /\ i <= Len(res0.close)}

\* those of them where the four prices are all present
C12_Kept(res0) ==
    {i \in C12_Below(res0) :
        /\ res0.open[i] # <<>>
        /\ res0.high[i] # <<>>
        /\ res0.low[i] # <<>>
        /\ res0.close[i] # <<>>}

\* the k-th kept index in increasing order
C12_Index(res0, k) ==
    CHOOSE i \in C12_Kept(res0) :
        Cardinality({j \in C12_Kept(res0) : j <= i}) = k

\* C12: on the free path the returned list has exactly one candle for each index
\* below the shortest of the timestamp, open, high, low and close arrays at which
\* the four prices are all non-null, in index order (3 timestamps with one null
\* close give 2 candles); the candle's timestamp is the provider's timestamp times
\* 1000 and its volume is 0 when the provider's volume is absent or null.
C12_FreePathCandles ==
    (pc = "done" /\ outcome = "returned" /\ yahoo_requests = 1) =>
        LET res0 == chart[1]
        IN  /\ Len(result) = Cardinality(C12_Kept(res0))
            /\ \A k \in 1..Len(result) :
                  LET i == C12_Index(res0, k)
                  IN  /\ result[k].t = res0.timestamp[i][1] * 1000
                      /\ result[k].o = res0.open[i][1]
                      /\ result[k].h = res0.high[i][1]
                      /\ result[k].l = res0.low[i][1]
                      /\ result[k].c = res0.close[i][1]
                      /\ result[k].v = IF i > Len(res0.volume) THEN 0
                                       ELSE IF res0.volume[i] = <<>> THEN 0
                                       ELSE res0.volume[i][1]
            /\ (/\ Len(res0.timestamp) = 3
                /\ C12_Below(res0) = {1, 2, 3}
                /\ Cardinality({i \in 1..3 : res0.close[i] = <<>>}) = 1
                /\ \A i \in 1..3 : /\ res0.open[i] # <<>>
                                   /\ res0.high[i] # <<>>
                                   /\ res0.low[i] # <<>>)
               => Len(result) = 2

\* three rows came, the middle one without a close and the first without a volume:
\* the first and the third are returned
C12_Witness ==
    /\ pc = "done"
    /\ outcome = "returned"
    /\ yahoo_requests = 1
    /\ Len(chart[1].timestamp) = 3
    /\ C12_Kept(chart[1]) = {1, 3}
    /\ chart[1].volume # <<>>
    /\ chart[1].volume[1] = <<>>
    /\ Len(result) = 2
    /\ result[1].t = 10000
    /\ result[1].v = 0
    /\ result[2].t = 30000

----------------------------------------------------------------------------
\* One call of read_github_file.  A URL is the prefix it starts with ("github" for
\* https://github.com/, "raw" for https://raw.githubusercontent.com/, "" for the
\* empty URL) and what split("/") makes of the rest.

Url(host, parts) == [host |-> host, parts |-> parts]

RECURSIVE StripSlashes(_)
\* strip("/") followed by split("/"): the empty parts at both ends go, and what is
\* left of an all-empty remainder is one empty part
StripSlashes(parts) ==
    IF Len(parts) = 0 THEN <<"">>
    ELSE IF Head(parts) = "" THEN StripSlashes(Tail(parts))
    ELSE IF parts[Len(parts)] = "" THEN StripSlashes(SubSeq(parts, 1, Len(parts) - 1))
    ELSE parts

\* github_reader.py:19-20
_is_github_blob_url(url) ==
    /\ url.host = "github"
    /\ \E i \in 1..(Len(url.parts) - 1) : url.parts[i] = "blob"

\* github_reader.py:23-28
_is_github_repo_root(url) ==
    /\ url.host = "github"
    /\ Len(StripSlashes(url.parts)) = 2

\* github_reader.py:31-34
_split_repo_root(url) == StripSlashes(url.parts)

\* github_reader.py:37-52: <<raw URL>>, or <<>> for None
_convert_blob_to_raw(url) ==
    IF Len(url.parts) < 2 \/ ~(\E i \in 1..Len(url.parts) : url.parts[i] = "blob")
    THEN <<>>
    ELSE LET blob_index == CHOOSE i \in 1..Len(url.parts) :
                               /\ url.parts[i] = "blob"
                               /\ \A j \in 1..(i - 1) : url.parts[j] # "blob"
             path_parts == SubSeq(url.parts, blob_index + 2, Len(url.parts))
         IN  IF blob_index + 1 > Len(url.parts) THEN <<>>
             ELSE <<Url("raw", <<url.parts[1], url.parts[2], url.parts[blob_index + 1]>>
                               \o (IF path_parts = <<>> THEN <<"">> ELSE path_parts))>>

RECURSIVE RStripSlashes(_)
\* rstrip("/"): the empty parts at the end go
RStripSlashes(parts) ==
    IF Len(parts) = 0 THEN <<>>
    ELSE IF parts[Len(parts)] = "" THEN RStripSlashes(SubSeq(parts, 1, Len(parts) - 1))
    ELSE parts

\* github_reader.py:55-56: the last part, or the host name when no part is left
_infer_filename_from_url(url) ==
    LET kept == RStripSlashes(url.parts)
    IN  IF kept = <<>> THEN url.host ELSE kept[Len(kept)]

\* github_reader.py:117-134 for a raw URL: can owner, repo, ref and path be read
RawComponentsOk(url) == url.host = "raw" /\ Len(url.parts) >= 4

\* github_reader.py:117-134: TRUE when the components can be read
_parse_github_url_to_components(url) ==
    IF url.host = "raw" THEN RawComponentsOk(url)
    ELSE IF _is_github_blob_url(url)
    THEN /\ _convert_blob_to_raw(url) # <<>>
         /\ RawComponentsOk(_convert_blob_to_raw(url)[1])
    ELSE FALSE

\* github_reader.py:171
ReadmeRaw(owner_repo, branch) ==
    Url("raw", <<owner_repo[1], owner_repo[2], branch, "README.md">>)

\* github_reader.py:166
ReadmeBlob(owner_repo, branch) ==
    Url("github", <<owner_repo[1], owner_repo[2], "blob", branch, "README.md">>)

\* the branches probed first and second
MasterThenMain == <<"master", "main">>

\* github_reader.py:170
ProbeBranches == <<"main", "master">>

\* the body of a response: its bytes are valid UTF-8 or they are not
Bodies == {"utf8_bytes", "other_bytes"}

\* github_reader.py:63-67 and 103-106
Decode(body) == IF body = "utf8_bytes" THEN "utf-8" ELSE "latin-1"

\* the answers to a plain download: status 0 is a request that raised
Downloads ==
    {[status_code |-> s, body |-> "utf8_bytes"] : s \in {0, 404}}
    \cup {[status_code |-> 200, body |-> b] : b \in Bodies}

\* the answers of the contents API: a directory listing, a file with its content
\* inline, a file with a download link, a file with neither
ContentAnswers ==
    {[status_code |-> s, shape |-> "file", body |-> "utf8_bytes", name |-> None] :
        s \in {0, 404}}
    \cup {[status_code |-> 200, shape |-> sh, body |-> b, name |-> n] :
             sh \in {"list", "inline", "link", "bare"}, b \in Bodies,
             n \in {None, "README.md"}}

\* the answers of the repository API: default_branch is absent, empty or a name
RepoAnswers ==
    {[status_code |-> s, default_branch |-> None] : s \in {0, 404}}
    \cup {[status_code |-> 200, default_branch |-> b] : b \in {None, "", "dev"}}

GithubUrls ==
    { Url("", <<>>),
      Url("github", <<"o", "r">>),
      Url("github", <<"o", "r", "">>),
      Url("github", <<"o">>),
      Url("github", <<"o", "r", "blob", "dev", "f.txt">>),
      Url("github", <<"o", "r", "blob">>),
      Url("github", <<"o", "r", "blob", "dev">>),
      Url("github", <<"o", "r", "issues">>),
      Url("raw", <<"o", "r", "dev", "f.txt">>),
      Url("raw", <<"o", "r">>),
      Url("other", <<"f.txt">>) }

GithubTokens == {None, "", "tok"}

GithubInit ==
    /\ gh_url \in GithubUrls
    /\ gh_token \in GithubTokens
    /\ gh_pc = "call"
    /\ gh_branch = 0
    /\ gh_target = Url("", <<>>)
    /\ gh_name = None
    /\ gh_outcome = "running"
    /\ gh_result = <<>>
    /\ gh_requests = <<>>

\* one request and whether it was answered without an error
Sent(kind, url, ok) == [kind |-> kind, url |-> url, ok |-> ok]

GithubFileResult(file_name, content_text, source) ==
    <<[file_name |-> file_name, content_text |-> content_text, source |-> source]>>

GithubFinish(o, r) ==
    /\ gh_pc' = "done"
    /\ gh_outcome' = o
    /\ gh_result' = r

\* github_reader.py:158-188: the call picks its way
ReadStart ==
    /\ gh_pc = "call"
    /\ IF gh_url.host = ""
       THEN GithubFinish("ValueError", <<>>) /\ UNCHANGED <<gh_branch, gh_target>>
       ELSE IF _is_github_repo_root(gh_url)
       THEN IF Truthy(gh_token)
            THEN /\ gh_pc' = "default_branch"
                 /\ UNCHANGED <<gh_branch, gh_target, gh_outcome, gh_result>>
            ELSE /\ gh_pc' = "probe"
                 /\ gh_branch' = 1
                 /\ gh_target' = ReadmeRaw(_split_repo_root(gh_url), ProbeBranches[1])
                 /\ UNCHANGED <<gh_outcome, gh_result>>
       ELSE IF Truthy(gh_token)
       THEN /\ gh_pc' = "api"
            /\ gh_target' = gh_url
            /\ UNCHANGED <<gh_branch, gh_outcome, gh_result>>
       ELSE /\ gh_pc' = "raw"
            /\ gh_target' = IF _is_github_blob_url(gh_url)
                               /\ _convert_blob_to_raw(gh_url) # <<>>
                            THEN _convert_blob_to_raw(gh_url)[1]
                            ELSE gh_url
            /\ UNCHANGED <<gh_branch, gh_outcome, gh_result>>
    /\ UNCHANGED <<gh_url, gh_token, gh_name, gh_requests>>
    /\ UNCHANGED <<fetchVars, scanVars, changeVars, parseVars, searchVars, serverVars>>

\* github_reader.py:170-178: one turn of the loop over the branches
ProbeReadme ==
    /\ gh_pc = "probe"
    /\ \E resp \in Downloads :
        LET ok == resp.status_code = 200
        IN  /\ gh_requests' = Append(gh_requests, Sent("raw", gh_target, ok))
            /\ IF ok
               THEN /\ GithubFinish("returned",
                                    GithubFileResult(_infer_filename_from_url(gh_target),
                                                     Decode(resp.body), "raw"))
                    /\ UNCHANGED <<gh_branch, gh_target>>
               ELSE IF gh_branch < Len(ProbeBranches)
               THEN /\ gh_branch' = gh_branch + 1
                    /\ gh_target' = ReadmeRaw(_split_repo_root(gh_url),
                                              ProbeBranches[gh_branch + 1])
                    /\ UNCHANGED <<gh_pc, gh_outcome, gh_result>>
               ELSE /\ GithubFinish("ValueError", <<>>)
                    /\ UNCHANGED <<gh_branch, gh_target>>
    /\ UNCHANGED <<gh_url, gh_token, gh_name>>
    /\ UNCHANGED <<fetchVars, scanVars, changeVars, parseVars, searchVars, serverVars>>

\* github_reader.py:137-148 and 165-166
DefaultBranch ==
    /\ gh_pc = "default_branch"
    /\ \E resp \in RepoAnswers :
        LET ok == resp.status_code = 200
            found == IF ok THEN resp.default_branch ELSE None
            default_branch == IF Truthy(found) THEN found ELSE "main"
        IN  /\ gh_requests' = Append(gh_requests, Sent("repo", gh_url, ok))
            /\ gh_target' = ReadmeBlob(_split_repo_root(gh_url), default_branch)
    /\ gh_pc' = "api"
    /\ UNCHANGED <<gh_url, gh_token, gh_branch, gh_name, gh_outcome, gh_result>>
    /\ UNCHANGED <<fetchVars, scanVars, changeVars, parseVars, searchVars, serverVars>>

\* github_reader.py:76-97 and 103-114
ContentsRequest ==
    /\ gh_pc = "api"
    /\ IF ~_parse_github_url_to_components(gh_target)
       THEN GithubFinish("ValueError", <<>>) /\ UNCHANGED <<gh_requests, gh_name>>
       ELSE \E resp \in ContentAnswers :
               LET ok == resp.status_code = 200
               IN  /\ gh_requests' = Append(gh_requests, Sent("contents", gh_target, ok))
                   /\ IF resp.status_code = 0 THEN GithubFinish("ConnectionError", <<>>)
                      ELSE IF ~ok THEN GithubFinish("HTTPError", <<>>)
                      ELSE IF resp.shape = "list" THEN GithubFinish("ValueError", <<>>)
                      ELSE IF resp.shape = "inline"
                      THEN GithubFinish("returned",
                               GithubFileResult(
                                   IF Truthy(resp.name) THEN resp.name
                                   ELSE _infer_filename_from_url(gh_target),
                                   Decode(resp.body), "api"))
                      ELSE IF resp.shape = "bare" THEN GithubFinish("ValueError", <<>>)
                      ELSE /\ gh_pc' = "download"
                           /\ UNCHANGED <<gh_outcome, gh_result>>
                   /\ gh_name' = resp.name
    /\ UNCHANGED <<gh_url, gh_token, gh_branch, gh_target>>
    /\ UNCHANGED <<fetchVars, scanVars, changeVars, parseVars, searchVars, serverVars>>

\* github_reader.py:98-114: the file is fetched from its download_url
DownloadRequest ==
    /\ gh_pc = "download"
    /\ \E resp \in Downloads :
        LET ok == resp.status_code = 200
        IN  /\ gh_requests' = Append(gh_requests, Sent("download", gh_target, ok))
            /\ IF resp.status_code = 0 THEN GithubFinish("ConnectionError", <<>>)
               ELSE IF ~ok THEN GithubFinish("HTTPError", <<>>)
               ELSE GithubFinish("returned",
                        GithubFileResult(
                            IF Truthy(gh_name) THEN gh_name
                            ELSE _infer_filename_from_url(gh_target),
                            Decode(resp.body), "api"))
    /\ UNCHANGED <<gh_url, gh_token, gh_branch, gh_target, gh_name>>
    /\ UNCHANGED <<fetchVars, scanVars, changeVars, parseVars, searchVars, serverVars>>

\* github_reader.py:59-73 and 188
RawRequest ==
    /\ gh_pc = "raw"
    /\ \E resp \in Downloads :
        LET ok == resp.status_code = 200
        IN  /\ gh_requests' = Append(gh_requests, Sent("raw", gh_target, ok))
            /\ IF resp.status_code = 0 THEN GithubFinish("ConnectionError", <<>>)
               ELSE IF ~ok THEN GithubFinish("HTTPError", <<>>)
               ELSE GithubFinish("returned",
                        GithubFileResult(_infer_filename_from_url(gh_target),
                                         Decode(resp.body), "raw"))
    /\ UNCHANGED <<gh_url, gh_token, gh_branch, gh_target, gh_name>>
    /\ UNCHANGED <<fetchVars, scanVars, changeVars, parseVars, searchVars, serverVars>>

InitGithub ==
    /\ FetchIdle /\ ScanIdle /\ ChangeIdle /\ ParseIdle /\ SearchIdle /\ ServerIdle
    /\ GithubInit

NextGithub ==
    \/ ReadStart
    \/ ProbeReadme
    \/ DefaultBranch
    \/ ContentsRequest
    \/ DownloadRequest
    \/ RawRequest

SpecGithub == InitGithub /\ [][NextGithub]_vars

\* the README.md of repository o/r on a branch, as a raw URL
C15_Readme(branch) == [host |-> "raw", parts |-> <<"o", "r", branch, "README.md">>]

\* C15: for a repository-root URL without a token the requests are, in order, the
\* README.md of branch main and then the one of branch master; a request follows
\* another only when the other failed; the call returns what the first resolving
\* probe gave, and it fails only after both probes have failed.
C15_MainThenMaster ==
    (_is_github_repo_root(gh_url) /\ ~Truthy(gh_token) /\ gh_pc # "call") =>
        LET n == Len(gh_requests)
        IN  /\ n <= 2
            /\ n >= 1 => gh_requests[1].url = C15_Readme("main")
            /\ n = 2 => gh_requests[2].url = C15_Readme("master")
            /\ \A i \in 1..n : gh_requests[i].kind = "raw"
            /\ \A i \in 1..(n - 1) : ~gh_requests[i].ok
            /\ gh_pc = "done" =>
                  /\ n >= 1
                  /\ ~ENABLED ProbeReadme
                  /\ IF gh_requests[n].ok
                     THEN /\ gh_outcome = "returned"
                          /\ gh_result # <<>>
                          /\ gh_result[1].source = "raw"
                          /\ gh_result[1].file_name = "README.md"
                     ELSE /\ n = 2
                          /\ gh_outcome = "ValueError"
                          /\ gh_result = <<>>
            /\ gh_pc # "done" =>
                  /\ gh_outcome = "running"
                  /\ n < 2

\* main failed and master resolved
C15_Witness ==
    /\ _is_github_repo_root(gh_url)
    /\ ~Truthy(gh_token)
    /\ gh_pc = "done"
    /\ gh_outcome = "returned"
    /\ Len(gh_requests) = 2
    /\ gh_requests[2].ok

----------------------------------------------------------------------------
\* Requests in flight on the server.  Every handler of main.py is a coroutine
\* (async def) that calls the blocking service functions directly: once the event
\* loop has started a handler, the handler holds the loop's thread until it
\* returns, its requests.get and time.sleep calls included.

NumRequests == 2

Requests == 1..NumRequests

\* main.py:38-40 and 66-82
Endpoints == {"health", "candles"}

ServerInit ==
    /\ req_kind \in [Requests -> Endpoints]
    /\ req_pc = [r \in Requests |-> "pending"]
    /\ req_attempts = [r \in Requests |-> 0]
    /\ req_pages = [r \in Requests |-> 0]
    /\ loop_owner = 0

\* how the primary provider answers a request of the retry loop
Answers(more) ==
    {"rate_limited", "error", "last_page"} \cup (IF more THEN {"more_pages"} ELSE {})

\* the handler of request r returns or raises: the loop's thread is free again
HandlerReturns(r) ==
    /\ req_pc' = [req_pc EXCEPT ![r] = "done"]
    /\ loop_owner' = 0

\* market_data.py:151-155 and 179-183: a 429 costs an attempt and the handler
\* enters time.sleep(1.0)
HandlerBackoff(r) ==
    /\ req_attempts' = [req_attempts EXCEPT ![r] = @ - 1]
    /\ req_pages' = [req_pages EXCEPT ![r] = 0]
    /\ req_pc' = [req_pc EXCEPT ![r] = "cooldown"]
    /\ UNCHANGED loop_owner

\* market_data.py:171-174: a cursor follows and the handler enters time.sleep(0.5)
HandlerPageDelay(r) ==
    /\ req_pc' = [req_pc EXCEPT ![r] = "page_delay"]
    /\ UNCHANGED <<req_attempts, loop_owner>>

\* main.py:38-40 and 66-74: the event loop starts the handler of a request that
\* has arrived; it can do so only when no handler is running on it
Dispatch(r) ==
    /\ loop_owner = 0
    /\ req_pc[r] = "pending"
    /\ IF req_kind[r] = "health"
       THEN /\ req_pc' = [req_pc EXCEPT ![r] = "done"]
            /\ UNCHANGED <<req_attempts, loop_owner>>
       ELSE /\ req_pc' = [req_pc EXCEPT ![r] = "request"]
            /\ req_attempts' = [req_attempts EXCEPT ![r] = AttemptBudget]
            /\ loop_owner' = r
    /\ UNCHANGED <<req_kind, req_pages>>
    /\ UNCHANGED <<fetchVars, scanVars, changeVars, parseVars, searchVars, githubVars>>

\* market_data.py:144-171: the initial request of an attempt
HandlerRequest(r) ==
    /\ loop_owner = r
    /\ req_pc[r] = "request"
    /\ req_attempts[r] > 0
    /\ \E answer \in Answers(MaxPages > 0) :
        IF answer = "rate_limited" THEN HandlerBackoff(r)
        ELSE IF answer = "more_pages"
        THEN HandlerPageDelay(r) /\ req_pages' = [req_pages EXCEPT ![r] = 0]
        ELSE HandlerReturns(r) /\ UNCHANGED <<req_attempts, req_pages>>
    /\ UNCHANGED req_kind
    /\ UNCHANGED <<fetchVars, scanVars, changeVars, parseVars, searchVars, githubVars>>

\* market_data.py:155, 174 and 183: time.sleep returns
HandlerWake(r) ==
    /\ loop_owner = r
    /\ req_pc[r] \in {"cooldown", "page_delay"}
    /\ req_pc' = [req_pc EXCEPT ![r] = IF @ = "cooldown" THEN "request" ELSE "page"]
    /\ UNCHANGED <<req_kind, req_attempts, req_pages, loop_owner>>
    /\ UNCHANGED <<fetchVars, scanVars, changeVars, parseVars, searchVars, githubVars>>

\* market_data.py:175-202: one continuation page
HandlerPage(r) ==
    /\ loop_owner = r
    /\ req_pc[r] = "page"
    /\ \E answer \in Answers(req_pages[r] + 1 < MaxPages) :
        IF answer = "rate_limited" THEN HandlerBackoff(r)
        ELSE IF answer = "more_pages"
        THEN HandlerPageDelay(r) /\ req_pages' = [req_pages EXCEPT ![r] = @ + 1]
        ELSE HandlerReturns(r) /\ UNCHANGED <<req_attempts, req_pages>>
    /\ UNCHANGED req_kind
    /\ UNCHANGED <<fetchVars, scanVars, changeVars, parseVars, searchVars, githubVars>>

\* market_data.py:144 and 205, main.py:81-82: the budget is spent
HandlerGiveUp(r) ==
    /\ loop_owner = r
    /\ req_pc[r] = "request"
    /\ req_attempts[r] = 0
    /\ HandlerReturns(r)
    /\ UNCHANGED <<req_kind, req_attempts, req_pages>>
    /\ UNCHANGED <<fetchVars, scanVars, changeVars, parseVars, searchVars, githubVars>>

InitServer ==
    /\ FetchIdle /\ ScanIdle /\ ChangeIdle /\ ParseIdle /\ SearchIdle /\ GithubIdle
    /\ ServerInit

NextServer ==
    \E r \in Requests :
        \/ Dispatch(r)
        \/ HandlerRequest(r)
        \/ HandlerWake(r)
        \/ HandlerPage(r)
        \/ HandlerGiveUp(r)

SpecServer == InitServer /\ [][NextServer]_vars

\* request r can take a step
C13_CanProgress(r) ==
    \/ ENABLED Dispatch(r)
    \/ ENABLED HandlerRequest(r)
    \/ ENABLED HandlerWake(r)
    \/ ENABLED HandlerPage(r)
    \/ ENABLED HandlerGiveUp(r)

\* C13: while the candle fetch of one request is in a cool-down or inter-page
\* wait, every other unfinished request in flight can take a step.
C13_WaitsAreScoped ==
    \A r \in Requests : \A q \in Requests \ {r} :
        (req_pc[r] \in {"cooldown", "page_delay"} /\ req_pc[q] # "done")
            => C13_CanProgress(q)

----------------------------------------------------------------------------
\* Claims about the order of the returned candles

\* the timestamps of a list are non-decreasing
C14_Ascending(list) ==
    \A i \in 1..(Len(list) - 1) : list[i].t <= list[i + 1].t

RECURSIVE C14_Rows(_)
\* the rows of a sequence of pages, page after page
C14_Rows(pages) ==
    IF pages = <<>> THEN <<>> ELSE Head(pages) \o C14_Rows(Tail(pages))

\* what the provider served for the returned list came in ascending order: the
\* rows of the last attempt's pages, or the free provider's timestamp array
C14_ServedAscending ==
    IF yahoo_requests > 0
    THEN chart # <<>> /\
         \A i \in 1..(Len(chart[1].timestamp) - 1) :
             chart[1].timestamp[i][1] <= chart[1].timestamp[i + 1][1]
    ELSE C14_Ascending(C14_Rows(attempt_pages))

\* C14 as stated: the timestamps of every returned list are non-decreasing.
C14_TimestampsAscending ==
    (pc = "done" /\ outcome = "returned") => C14_Ascending(result)

\* C14, amended: the returned list keeps the order in which the provider served
\* the rows, so its timestamps are non-decreasing whenever the served rows (all
\* pages of the last attempt in page order, or the free provider's timestamp
\* array) were.
C14_OrderPreserved ==
    (pc = "done" /\ outcome = "returned" /\ C14_ServedAscending)
        => C14_Ascending(result)

\* three candles from two pages served in ascending order
C14_Witness ==
    /\ pc = "done"
    /\ outcome = "returned"
    /\ polygon_requests > 0
    /\ Len(attempt_pages) = 2
    /\ C14_ServedAscending
    /\ Len(result) = 3
    /\ result[1].t < result[3].t

----------------------------------------------------------------------------
\* Claims about the steps of the retry loop

\* a request goes to the primary provider in this step
C16_Requests == polygon_requests' = polygon_requests + 1

\* the provider answers this step's request with a rate-limit signal
C16_RateLimited == C16_Requests /\ last_status' = 429

\* C16: a rate-limit signal, on an initial request or on a continuation page, sets
\* the duration to the larger of 1 day and the floor of half the current duration
\* in days; every initial request sent after a rate-limit asks for at least 1 day.
C16_ShrinkOnRateLimit ==
    [][ /\ C16_RateLimited =>
              current_delta' = IF current_delta \div 2 > 1 THEN current_delta \div 2
                               ELSE 1
        /\ (C16_Requests /\ rate_limits >= 1) => last_request'.days >= 1
      ]_vars

\* a five-day window has shrunk to two days and then to one
C16_Witness ==
    /\ window = <<"5", "d">>
    /\ rate_limits = 2
    /\ last_request.kind = "initial"
    /\ last_request.days = 2
    /\ last_status = 429
    /\ current_delta = 1

\* C17 as stated: for every window the parser accepts, no request of a call asks
\* for more days than the request before it.
C17_NonIncreasing ==
    [][ (C16_Requests /\ last_request.kind # "none")
            => last_request'.days <= last_request.days
      ]_vars

\* C17, amended: when the request before asked for at least 1 day, a request asks
\* for no more days than it; when it asked for less (a window of zero or fewer
\* days), the re-attempt after its rate-limit asks for 1 day, which is more.
C17_NonIncreasingFromOneDay ==
    [][ (C16_Requests /\ last_request.kind # "none") =>
            /\ last_request.days >= 1 => last_request'.days <= last_request.days
            /\ last_request.days < 1 =>
                  \/ last_request'.days = last_request.days
                  \/ /\ last_status = 429
                     /\ last_request'.days = 1
      ]_vars

\* a week has shrunk to three days and then to one, which was served
C17_Witness ==
    /\ window = MaxWindow
    /\ timespan = "1m"
    /\ rate_limits = 2
    /\ polygon_requests = 3
    /\ last_request.days = 1
    /\ last_status = 200

\* C18: a rate-limit signal on a continuation page consumes one unit of the
\* budget, shrinks the duration and leaves the paging loop; the request that
\* follows a rate-limit is an initial ranged request for the shrunken duration
\* whose attempt holds nothing of the abandoned one; a continuation request is
\* only ever made for the cursor that the latest response of the attempt in
\* progress carried.
C18_PageRateLimit ==
    [][ /\ (C16_RateLimited /\ pc = "page") =>
              /\ attempts_remaining' = attempts_remaining - 1
              /\ current_delta' = (IF current_delta \div 2 > 1 THEN current_delta \div 2
                                   ELSE 1)
              /\ pc' = "loop"
              /\ ~cursor_fresh'
        /\ (C16_Requests /\ last_status = 429) =>
              /\ last_request'.kind = "initial"
              /\ last_request'.days = current_delta
              /\ Len(attempt_pages') <= 1
              /\ IF last_status' = 200 /\ outcome' # "KeyError"
                 THEN candles' = ConcatPages(attempt_pages')
                 ELSE outcome' # "returned"
        /\ (C16_Requests /\ last_request'.kind = "page") =>
              /\ cursor_fresh
              /\ last_status = 200
              /\ last_request'.url = next_url
      ]_vars

\* an attempt that held candles was abandoned on a page, and the fresh attempt
\* after it has received a cursor of its own
C18_Witness ==
    /\ discarded
    /\ rate_limits = 1
    /\ pc = "page"
    /\ last_request.kind = "initial"
    /\ last_status = 200
    /\ cursor_fresh
    /\ Len(attempt_pages) = 1

\* the caller's credential: the explicit argument, else the environment default
C19_Credential == IF polygon_key \notin {"None", ""} THEN polygon_key ELSE env_key

\* C19: a continuation request is the provider's next-page URL with the caller's
\* credential attached (behind "&" when the URL has a query string, behind "?"
\* otherwise) and is sent after a delay of half a second; a request that follows a
\* rate-limit signal is sent after a cool-down of one second.
C19_CredentialAndWaits ==
    [][ /\ (C16_Requests /\ pc = "page") =>
              /\ last_request'.kind = "page"
              /\ last_request'.url = next_url
              /\ last_request'.apiKey = C19_Credential
              /\ last_request'.separator = (IF next_url = "cursor_a" THEN "&" ELSE "?")
              /\ last_request'.waited = 5
        /\ (C16_Requests /\ last_status = 429) => last_request'.waited = 10
      ]_vars

\* a continuation request carried the environment's credential
C19_Witness ==
    /\ last_request.kind = "page"
    /\ last_request.url = "cursor_a"
    /\ last_request.separator = "&"
    /\ last_request.apiKey = "envkey"
    /\ last_request.waited = 5
    /\ rate_limits >= 1

\* the retry loop has been entered
C20_InLoop == pc \in {"loop", "page"} \/ polygon_requests > 0

\* C20: once the loop is entered the budget is within 0..5 and the rate-limit
\* signals handled plus the budget is 5; a step lowers the budget by one when it
\* is a rate-limit signal, on an initial or a continuation request, and leaves it
\* alone otherwise; no request is sent when the budget is 0.
C20_BudgetAccounting ==
    [][ /\ C20_InLoop' =>
              /\ attempts_remaining' \in 0..5
              /\ rate_limits' + attempts_remaining' = 5
        /\ C20_InLoop =>
              attempts_remaining' = IF C16_RateLimited THEN attempts_remaining - 1
                                    ELSE attempts_remaining
        /\ (C20_InLoop /\ attempts_remaining = 0) =>
              /\ polygon_requests' = polygon_requests
              /\ yahoo_requests' = yahoo_requests
      ]_vars

\* the budget was spent by rate-limits on initial requests and on pages
C20_Witness ==
    /\ pc = "loop"
    /\ attempts_remaining = 0
    /\ rate_limits = 5
    /\ discarded
    /\ polygon_requests > 6

----------------------------------------------------------------------------
\* One primary-path call of fetch_candles, every step of which completes: the
\* code is sequential, its requests carry timeout=30 and its sleeps are finite,
\* so a call that can take a step does take it.  The provider's chain of
\* continuation cursors ends after MaxPages pages.

\* market_data.py:98-101: the caller hands in a credential
LiveInit ==
    /\ FetchInit
    /\ polygon_key = "key"
    /\ env_key = None
    /\ timespan \in ExplicitWindowTimespans

InitLive ==
    /\ LiveInit /\ ScanIdle /\ ChangeIdle /\ ParseIdle /\ SearchIdle
    /\ GithubIdle /\ ServerIdle

NextLive ==
    \/ Start
    \/ InitialRequest
    \/ PageRequest
    \/ RaiseRateLimit

SpecLive == InitLive /\ [][NextLive]_vars /\ WF_vars(NextLive)

\* the ways a call ends
C21_Ended ==
    /\ pc = "done"
    /\ \/ outcome = "returned"
       \/ outcome = "RateLimitError" /\ result = <<>>
       \/ /\ outcome \in {"HTTPError", "ConnectionError", "KeyError", "ValueError"}
          /\ result = <<>>

\* C21: every primary-path call, each of whose requests is answered and whose
\* cursor chains are finite, eventually ends with a returned list, the
\* rate-limit error or another error, and takes no step after that; an attempt
\* starts only while fewer than 5 rate-limits have been handled, so the loop
\* makes at most 5 attempts.
C21_Terminates ==
    /\ (pc = "call") ~> C21_Ended
    /\ [](pc = "done" => C21_Ended)
    /\ [][ /\ pc # "done"
           /\ (polygon_requests' = polygon_requests + 1
               /\ last_request'.kind = "initial") => rate_limits <= 4
         ]_vars

\* a call returned two pages on its fifth attempt
C21_Witness ==
    /\ pc = "done"
    /\ outcome = "returned"
    /\ rate_limits = 4
    /\ attempts_remaining = 1
    /\ Len(attempt_pages) = 2
    /\ result # <<>>

====
